---- MODULE Spec2Model ----
(***************************************************************************)
(* Model of pip_search: session establishment with the proof-of-work       *)
(* challenge (utils.get_session), the search pipeline                      *)
(* (pip_search.search and its process_snippet tasks, with the optional     *)
(* GitHub enrichment) and the local-library version check                  *)
(* (utils.check_local_libs and its check_pypi_version tasks), all run from *)
(* __main__.async_main, which turns their outcome into the exit code.      *)
(*                                                                         *)
(* Spec is the whole program.  SpecSort is the sort of async_main and      *)
(* SpecText the whitespace handling of process_snippet, each applied to    *)
(* inputs drawn from bounded sets.                                         *)
(*                                                                         *)
(* Scheduling is asyncio's: one event loop, a coroutine runs from one      *)
(* await to the next without interruption, so every action below is the    *)
(* code between two suspension points of one coroutine.                    *)
(*                                                                         *)
(* Durations are in tenths of a second (0.5s = 5, 1s = 10, 0.1s = 1).      *)
(* Characters of the proof-of-work alphabet are their 1-based positions    *)
(* in string.ascii_letters + string.digits.                                *)
(***************************************************************************)
EXTENDS Integers, Sequences, FiniteSets, TLC

\* ---------------------------------------------------------------- bounds
\* challenge bases offered by the remote: 0..MaxBase
MaxBase == 1
\* at most this many local library entries
MaxLibs == 2
\* at most this many result fragments over the pages of one search
MaxSnippets == 2
\* at most this many records given to the sort on its own
MaxSort == 3
\* at most this many characters in the text of a name or description
MaxText == 5

\* ------------------------------------------------------ program constants
\* len(string.ascii_letters + string.digits)
AlphabetSize == 62
\* check_pypi_version(..., max_retries: int = 3)
MaxRetries == 3
\* backoff_time = 0.5 * (2 ** attempt), in tenths of a second
BackoffBase == 5
\* await asyncio.sleep(0.1), in tenths of a second
ThrottleDelay == 1
\* Config.page_size
page_size == 2

None == "None"
NoChallenge == [base |-> 0, hash |-> 0]

VARIABLES
    pc,            \* position of the entry coroutine (search / check_local_libs)
    entry,         \* "search" or "locallibs": which pipeline async_main runs
    extra,         \* args.extra / opts.extra
    client,        \* the httpx.AsyncClient: "none", "open", "closed"
    exc,           \* exception that left the entry coroutine, or None
    challenge,     \* get_session locals base, hash (None before they are parsed)
    answer,        \* get_session local answer: sequence of characters
    c1,            \* get_session: position of the outer loop over the alphabet
    tried,         \* number of candidates hashed by the solver loops
    posted,        \* number of POSTs made to the fst-post-back endpoint
    page,          \* get_snippets: next page number to request
    snippets,      \* get_snippets / search: fragments collected so far
    tasks,         \* search: one process_snippet task per snippet
    results,       \* value returned by asyncio.gather
    local_libs,    \* check_local_libs: list of local entries
    checks,        \* check_local_libs: one check_pypi_version task per entry
    idx,           \* check_local_libs: position of the classification loop
    outdated_libs, \* check_local_libs: names to upgrade
    query,         \* args.query: the search terms of the command line
    sort,          \* args.sort: the sort key, or None
    exit_code,     \* value returned by async_main, -1 while it runs
    reqs,          \* requests issued by the entry coroutine, in order
    closes,        \* number of calls of client.aclose()
    text,          \* text of a fragment's name or description element
    field,         \* the field of the record made from that text
    overtaken,     \* some check returned before the check of an earlier entry
    error_list     \* check_local_libs: entries that could not be resolved

vars == <<pc, entry, extra, client, exc, challenge, answer, c1, tried, posted,
          page, snippets, tasks, results, local_libs, checks, idx,
          outdated_libs, error_list, overtaken, query, sort, exit_code, reqs, closes,
          text, field>>

mainVars == <<entry, extra, query, sort, exit_code>>
netVars == <<reqs, closes>>
textVars == <<text, field>>

sessionVars == <<challenge, answer, c1, tried, posted>>
searchVars == <<page, snippets, tasks>>
libsVars == <<local_libs, checks, idx, outdated_libs, error_list, overtaken>>

\* ------------------------------------------------------- proof of work
\* Stand-in for hashlib.sha256((base + c1 + c2).encode()).hexdigest(): a
\* deterministic digest of the base and the two suffix characters.  Unlike
\* SHA-256 it has collisions inside the two-character space, so that
\* "first match" and "some match" are different things.
sha256(base, a, b) == base + a * (b % 31)

\* Targets the remote may send: 12 has several preimages, 67 and 1860 have
\* some or none depending on the base.
TargetHashes == {12, 67, 1860}

Challenges == [base : 0..MaxBase, hash : TargetHashes]

\* for c2 in characters: ... break.  Result: the matching c2 (0 if the loop
\* ran to its end) and the number of candidates hashed.
RECURSIVE InnerLoopNoBreak(_, _, _, _)
InnerLoopNoBreak(base, hash, a, c2) ==
    IF c2 > AlphabetSize THEN [c2 |-> 0, n |-> AlphabetSize]
    ELSE LET rest == InnerLoopNoBreak(base, hash, a, c2 + 1) IN
         IF rest.c2 # 0 THEN rest
         ELSE IF sha256(base, a, c2) = hash THEN [c2 |-> c2, n |-> AlphabetSize]
         ELSE rest

RECURSIVE InnerLoop(_, _, _, _)
InnerLoop(base, hash, a, c2) ==
    IF c2 > AlphabetSize THEN [c2 |-> 0, n |-> AlphabetSize]
    ELSE IF sha256(base, a, c2) = hash THEN [c2 |-> c2, n |-> c2]
    ELSE InnerLoop(base, hash, a, c2 + 1)

\* ------------------------------------------------------------ requests
\* sep.join(terms)
RECURSIVE join(_, _)
join(sep, terms) ==
    IF terms = <<>> THEN ""
    ELSE IF Len(terms) = 1 THEN terms[1]
    ELSE terms[1] \o sep \o join(sep, Tail(terms))

\* A request of the entry coroutine: the endpoint and its params (q is ""
\* and page is 0 where the request carries none).
Request(endpoint, q, n) == [endpoint |-> endpoint, q |-> q, page |-> n]

\* get_snippets: query = "".join(args.query); params = {"q": query, "page":
\* page}; r = await client.get(config.api_url, params=params)
get_snippets_request(n) == Request("search", join("", query), n)

\* --------------------------------------------------------- get_session
\* The exception leaves get_session and its caller (search or
\* check_local_libs has no try around anything): nothing closes the client.
Raise(e) ==
    /\ pc' = "raised"
    /\ exc' = e

\* async_main goes on to check_local_libs, or with a query to search;
\* either calls get_session: query = "".join(query);
\* client = httpx.AsyncClient(); r = await client.get(api_url, params, headers)
get_session_open ==
    /\ pc = "start"
    /\ entry = "locallibs" \/ query # <<>>
    /\ client' = "open"
    /\ reqs' = Append(reqs, Request("search", join("", query), 0))
    /\ pc' = "gs_search"
    /\ UNCHANGED <<mainVars, textVars, closes, exc, sessionVars, searchVars, results, libsVars>>

\* response of the initial search GET; path = pattern.findall(r.text)[0];
\* r = await client.get(script_url)
get_session_search_lenient ==
    /\ pc = "gs_search"
    /\ \E r \in {"script", "noscript", "neterr"} :
         CASE r = "script"   -> /\ pc' = "gs_script"
                                /\ exc' = exc
                                /\ reqs' = Append(reqs, Request("script", "", 0))
           [] r = "noscript" -> /\ pc' = IF entry = "search" THEN "get_snippets"
                                         ELSE "get_local_libs"
                                /\ exc' = exc
                                /\ reqs' = IF entry = "search"
                                           THEN Append(reqs, get_snippets_request(1))
                                           ELSE reqs
           [] r = "neterr"   -> Raise("HTTPError") /\ reqs' = reqs
    /\ UNCHANGED <<mainVars, textVars, closes, client, sessionVars, searchVars, results,
                   libsVars>>

get_session_search ==
    /\ pc = "gs_search"
    /\ \E r \in {"script", "noscript", "neterr"} :
         CASE r = "script"   -> /\ pc' = "gs_script"
                                /\ exc' = exc
                                /\ reqs' = Append(reqs, Request("script", "", 0))
           [] r = "noscript" -> Raise("IndexError") /\ reqs' = reqs
           [] r = "neterr"   -> Raise("HTTPError") /\ reqs' = reqs
    /\ UNCHANGED <<mainVars, textVars, closes, client, sessionVars, searchVars, results, libsVars>>

\* response of the script GET; base, hash, hmac, expires, token =
\* pattern.findall(r.text)[0]
get_session_script ==
    /\ pc = "gs_script"
    /\ \/ \E c \in Challenges :
            /\ challenge' = c
            /\ pc' = "gs_solve"
            /\ exc' = exc
       \/ Raise("IndexError") /\ challenge' = challenge
       \/ Raise("HTTPError") /\ challenge' = challenge
    /\ UNCHANGED <<mainVars, textVars, netVars, client, answer, c1, tried, posted, searchVars,
                   results, libsVars>>

\* One iteration of `for c1 in characters`: the inner loop, then
\* `if answer: break`.  When the loop is left, by the break or at its end,
\* data is built and client.post(back_url, json=data) is awaited.
get_session_solve ==
    /\ pc = "gs_solve"
    /\ c1 <= AlphabetSize
    /\ LET r == InnerLoop(challenge.base, challenge.hash, c1, 1) IN
         /\ tried' = tried + r.n
         /\ IF r.c2 # 0
            THEN /\ answer' = <<c1, r.c2>>
                 /\ c1' = c1
                 /\ posted' = posted + 1
                 /\ pc' = "gs_post"
            ELSE /\ answer' = answer
                 /\ c1' = c1 + 1
                 /\ IF c1 = AlphabetSize
                    THEN posted' = posted + 1 /\ pc' = "gs_post"
                    ELSE posted' = posted /\ pc' = pc
         /\ reqs' = IF pc' = "gs_post"
                    THEN Append(reqs, Request("callback", "", 0))
                    ELSE reqs
    /\ UNCHANGED <<mainVars, textVars, closes, client, exc, challenge, searchVars, results,
                   libsVars>>

\* response of the POST; return client.  The locals of get_session (base,
\* hash, answer) end with the call, whichever way it is left.  In search,
\* get_snippets then issues the GET of page 1.
get_session_post ==
    /\ pc = "gs_post"
    /\ \/ /\ pc' = IF entry = "search" THEN "get_snippets" ELSE "get_local_libs"
          /\ exc' = exc
          /\ reqs' = IF entry = "search" THEN Append(reqs, get_snippets_request(1))
                     ELSE reqs
       \/ Raise("HTTPError") /\ reqs' = reqs
    /\ challenge' = NoChallenge
    /\ answer' = <<>>
    /\ c1' = 1
    /\ tried' = 0
    /\ UNCHANGED <<mainVars, textVars, closes, client, posted, searchVars, results,
                   libsVars>>

\* ---------------------------------------------------- check_local_libs
\* Entries get_local_libs can read from METADATA files.
LibPool ==
    { [name |-> "foo", version |-> "1.0.0"], [name |-> "bar", version |-> "2.0.0"] }

\* Versions the project page of the index may show.
RemoteVersions == {"1.1.0", "2.0.0"}

\* What one `await client.get(baseurl)` plus the parsing of its body can
\* give: a connect timeout, another exception of the request, or a page
\* whose package header has the given space-separated fields.
Responses(libname) ==
    {[kind |-> "ConnectTimeout", header |-> <<>>],
     [kind |-> "HTTPError", header |-> <<>>],
     [kind |-> "page", header |-> <<libname>>],
     [kind |-> "page", header |-> <<libname, "1.1.0", "beta">>]}
    \cup {[kind |-> "page", header |-> <<libname, v>>] : v \in RemoteVersions}

\* a check_pypi_version coroutine before it first runs
NewCheck ==
    [tpc |-> "new", attempt |-> 0, requests |-> 0, outcomes |-> <<>>,
     header |-> <<>>, backoffs |-> <<>>, throttle |-> 0,
     pkg_name |-> None, pkg_version |-> None]

RECURSIVE Pow2(_)
Pow2(n) == IF n = 0 THEN 1 ELSE 2 * Pow2(n - 1)

\* backoff_time = 0.5 * (2 ** attempt)
backoff_time_flat(attempt) == BackoffBase

backoff_time(attempt) == BackoffBase * Pow2(attempt)

\* for attempt in range(max_retries)
in_range_one_more(attempt) == attempt <= MaxRetries

in_range(attempt) == attempt < MaxRetries

\* The loop is left, by a break or at the end of the range:
\* await asyncio.sleep(0.1)
after_loop(c) == [c EXCEPT !.tpc = "throttle", !.throttle = @ + ThrottleDelay]

\* The loop goes to attempt a: r = await client.get(baseurl, ...), or the
\* loop is over
next_attempt_restart(c, a) ==
    IF in_range(a)
    THEN [c EXCEPT !.tpc = "get", !.attempt = a, !.requests = @ + 1]
    ELSE [NewCheck EXCEPT !.tpc = "get", !.requests = 1]

next_attempt(c, a) ==
    IF in_range(a)
    THEN [c EXCEPT !.tpc = "get", !.attempt = a, !.requests = @ + 1]
    ELSE after_loop(c)

\* the body of the try after the request returned a page with this header:
\* pkg_name, pkg_version = pkgheader.split(' '); break
try_body(c, header) ==
    after_loop([c EXCEPT !.outcomes = Append(@, "ok"), !.header = header,
                         !.pkg_name = header[1], !.pkg_version = header[2]])

\* except httpx.ConnectTimeout: sleep for backoff_time unless this is the
\* last attempt, then go round the loop
except_ConnectTimeout(c) ==
    LET d == [c EXCEPT !.outcomes = Append(@, "ConnectTimeout")] IN
    IF d.attempt < MaxRetries - 1
    THEN [d EXCEPT !.tpc = "sleep", !.backoffs = Append(@, backoff_time(d.attempt))]
    ELSE next_attempt(d, d.attempt + 1)

\* except Exception: break
except_Exception_retry(c, e) ==
    next_attempt([c EXCEPT !.outcomes = Append(@, e)], c.attempt + 1)

except_Exception(c, e) == after_loop([c EXCEPT !.outcomes = Append(@, e)])

\* pkg_name, pkg_version = pkgheader.split(' '): both names are bound, or
\* the unpacking raises ValueError with neither bound
unpack_fieldwise(c, header) ==
    IF Len(header) < 2
    THEN except_Exception([c EXCEPT !.header = header, !.pkg_name = header[1]],
                          "IndexError")
    ELSE try_body(c, header)

unpack(c, header) ==
    IF Len(header) # 2
    THEN except_Exception([c EXCEPT !.header = header], "ValueError")
    ELSE try_body(c, header)

\* local_libs = get_local_libs(libpath); one coroutine per entry;
\* results = await asyncio.gather(*tasks, return_exceptions=True)
check_local_libs_gather ==
    /\ pc = "get_local_libs"
    /\ \E n \in 0..MaxLibs : \E libs \in [1..n -> LibPool] :
         /\ local_libs' = [i \in 1..n |-> [name |-> libs[i].name,
                                             version |-> libs[i].version,
                                             distpath |-> i]]
         /\ checks' = [i \in 1..n |-> NewCheck]
    /\ pc' = "gather_libs"
    /\ UNCHANGED <<mainVars, textVars, netVars, client, exc, sessionVars, searchVars, results,
                   idx, outdated_libs, error_list, overtaken>>

\* The task starts (attempt 0 of the loop), or its backoff sleep is over and
\* the loop goes to its next attempt.
check_pypi_version_get(i) ==
    /\ pc = "gather_libs"
    /\ checks[i].tpc \in {"new", "sleep"}
    /\ checks' = [checks EXCEPT ![i] =
                    IF @.tpc = "new" THEN next_attempt(@, 0)
                    ELSE next_attempt(@, @.attempt + 1)]
    /\ UNCHANGED <<pc, mainVars, textVars, netVars, client, exc, sessionVars, searchVars,
                   results, local_libs, idx, outdated_libs, error_list, overtaken>>

\* The request of attempt `attempt` ends: the body of the try or one of its
\* two except clauses, up to the next await.
check_pypi_version_response(i) ==
    /\ pc = "gather_libs"
    /\ checks[i].tpc = "get"
    /\ \E r \in Responses(local_libs[i].name) :
         checks' = [checks EXCEPT ![i] =
           IF r.kind = "ConnectTimeout" THEN except_ConnectTimeout(@)
           ELSE IF r.kind # "page" THEN except_Exception(@, r.kind)
           ELSE unpack(@, r.header)]
    /\ UNCHANGED <<pc, mainVars, textVars, netVars, client, exc, sessionVars, searchVars,
                   results, local_libs, idx, outdated_libs, error_list, overtaken>>

\* asyncio.sleep(0.1) is over: return pkg_name, pkg_version
check_pypi_version_return(i) ==
    /\ pc = "gather_libs"
    /\ checks[i].tpc = "throttle"
    /\ checks' = [checks EXCEPT ![i].tpc = "done"]
    /\ overtaken' = (overtaken \/ \E j \in 1..(i - 1) : checks[j].tpc # "done")
    /\ UNCHANGED <<pc, mainVars, textVars, netVars, client, exc, sessionVars, searchVars,
                   results, local_libs, idx, outdated_libs, error_list>>

\* The list asyncio.gather returns for finished tasks: their values in the
\* order the awaitables were passed, whatever the order they finished in.
gather_as_completed(cs) ==
    [i \in DOMAIN cs |->
       LET k == IF overtaken THEN Len(cs) + 1 - i ELSE i IN
       [type |-> "tuple", value |-> <<cs[k].pkg_name, cs[k].pkg_version>>]]

gather(cs) ==
    [i \in DOMAIN cs |->
       [type |-> "tuple", value |-> <<cs[i].pkg_name, cs[i].pkg_version>>]]

\* gather returns once every task is done: the list of their values, in the
\* order of the tasks
check_local_libs_gathered ==
    /\ pc = "gather_libs"
    /\ \A i \in DOMAIN checks : checks[i].tpc = "done"
    /\ results' = gather(checks)
    /\ idx' = 1
    /\ pc' = "classify"
    /\ UNCHANGED <<mainVars, textVars, netVars, client, exc, sessionVars, searchVars,
                   local_libs, checks, outdated_libs, error_list, overtaken>>

\* The branch one iteration of the classification loop takes for an entry
\* and its result: "error" (error_list.append(lib); continue), "outdated"
\* (outdated_libs.append(lib["name"])) or "pass".
classify_unchecked(lib, result) ==
    IF result.type = "Exception" THEN "error"
    ELSE IF result.type = "NoneType" THEN "error"
    ELSE IF result.type # "tuple" \/ Len(result.value) < 2 THEN "error"
    ELSE IF result.value[2] # lib.version THEN "outdated"
    ELSE "pass"

classify_inverted(lib, result) ==
    IF result.type = "Exception" THEN "error"
    ELSE IF result.type = "NoneType" THEN "error"
    ELSE IF result.type # "tuple" \/ Len(result.value) < 2 THEN "error"
    ELSE IF result.value[1] = None \/ result.value[2] = None THEN "error"
    ELSE IF result.value[2] = lib.version THEN "outdated"
    ELSE "pass"

classify_drops(lib, result) ==
    IF result.type = "Exception" THEN "error"
    ELSE IF result.type = "NoneType" THEN "error"
    ELSE IF result.type # "tuple" \/ Len(result.value) < 2 THEN "error"
    ELSE IF result.value[1] = None \/ result.value[2] = None THEN "pass"
    ELSE IF result.value[2] # lib.version THEN "outdated"
    ELSE "pass"

classify(lib, result) ==
    IF result.type = "Exception" THEN "error"
    ELSE IF result.type = "NoneType" THEN "error"
    ELSE IF result.type # "tuple" \/ Len(result.value) < 2 THEN "error"
    ELSE IF result.value[1] = None \/ result.value[2] = None THEN "error"
    ELSE IF result.value[2] # lib.version THEN "outdated"
    ELSE "pass"

\* one iteration of `for i, result in enumerate(results)`
check_local_libs_classify ==
    /\ pc = "classify"
    /\ idx <= Len(results)
    /\ LET lib == local_libs[idx]
           branch == classify(lib, results[idx])
       IN /\ error_list' = IF branch = "error" THEN Append(error_list, lib)
                           ELSE error_list
          /\ outdated_libs' = IF branch = "outdated"
                              THEN Append(outdated_libs, lib.name)
                              ELSE outdated_libs
    /\ idx' = idx + 1
    /\ UNCHANGED <<pc, mainVars, textVars, netVars, client, exc, sessionVars, searchVars,
                   results, local_libs, checks, overtaken>>

\* after the loop: await client.aclose(); return outdated_libs, error_list
check_local_libs_close ==
    /\ pc = "classify"
    /\ idx > Len(results)
    /\ client' = "closed"
    /\ closes' = closes + 1
    /\ pc' = "done"
    /\ UNCHANGED <<mainVars, textVars, reqs, exc, sessionVars, searchVars, results,
                   libsVars>>

\* ---------------------------------------------------------- get_snippets
\* URLs are a host and the segments of the path.
Url(host, path) == [host |-> host, path |-> path]

\* Result fragments a search page can carry.  A field is None when the
\* fragment has no element for its selector.
FragmentPool ==
    { [href |-> "/project/foo/", name |-> "foo", created |-> "2024-01-02T03:04:05+0000",
       description |-> "d"],
      [href |-> "/project/foo/", name |-> None, created |-> "2024-01-02T03:04:05+0000",
       description |-> "d"],
      [href |-> "/project/foo/", name |-> "foo", created |-> None,
       description |-> "d"] }

\* response of the GET of page `page`: snippets += soup.select(...); the
\* next GET is issued, or get_snippets returns and search creates one
\* process_snippet coroutine per snippet and awaits asyncio.gather(*tasks)
NewTask(snippet) ==
    [tpc |-> "new", snippet |-> snippet, pack |-> [tag |-> "None"],
     repo |-> Url("", <<>>), status |-> 0, exc |-> None,
     gets |-> <<>>, detail |-> None, gh_link |-> [tag |-> "None"]]

\* snippets += soup.select('a[class*="package-snippet"]')
extend_front(found_so_far, found) == found \o found_so_far

extend(found_so_far, found) == found_so_far \o found

search_get_snippets ==
    /\ pc = "get_snippets"
    /\ \/ /\ \E n \in 0..(MaxSnippets - Len(snippets)) :
               \E found \in [1..n -> FragmentPool] :
                  LET all == extend(snippets, found) IN
                  /\ snippets' = all
                  /\ IF page < page_size
                     THEN /\ page' = page + 1
                          /\ reqs' = Append(reqs, get_snippets_request(page + 1))
                          /\ pc' = "get_snippets"
                          /\ tasks' = tasks
                     ELSE /\ page' = page
                          /\ reqs' = reqs
                          /\ pc' = "gather"
                          /\ tasks' = [i \in 1..Len(all) |-> NewTask(all[i])]
          /\ exc' = exc
       \/ /\ Raise("HTTPError")
          /\ UNCHANGED <<page, snippets, tasks, reqs>>
    /\ UNCHANGED <<mainVars, textVars, closes, client, sessionVars, results, libsVars>>

\* ------------------------------------------------------- Package
\* Package(name, version, released, description, link) after __post_init__
Package(name, version, released, description, link) ==
    [tag |-> "Package", name |-> name, version |-> version, released |-> released,
     description |-> description, link |-> link,
     stars |-> 0, forks |-> 0, watchers |-> 0, github_link |-> "", info_set |-> FALSE]

\* Package.set_gh_info(info)
set_gh_info(pack, info) ==
    [pack EXCEPT !.stars = info.stars, !.forks = info.forks,
                 !.watchers = info.watchers, !.github_link = info.github_link,
                 !.info_set = TRUE]

\* ------------------------------------------------------- enrichment
UrlString(u) == IF Len(u.path) = 1 THEN u.host \o "/" \o u.path[1]
                ELSE IF Len(u.path) = 2 THEN u.host \o "/" \o u.path[1] \o "/" \o u.path[2]
                ELSE u.host \o "/" \o u.path[1] \o "/" \o u.path[2] \o "/" \o u.path[3]

\* What the detail page can hold at the homepage selector (None: nothing
\* there), and whether the second selector of get_links finds a link.
Homepages ==
    { Url("github.com", <<"o", "r">>), Url("github.com", <<"o", "r", "tags">>),
      Url("o.github.io", <<"r">>), Url("example.org", <<"r">>),
      Url("example.org", <<"r", "issues">>) }

\* "issues" in homepage
has_issues(u) == \E i \in DOMAIN u.path : u.path[i] = "issues"

\* "github" in homepage
has_github(u) == u.host \in {"github.com", "o.github.io"}

\* githublink.replace("/tags", "")
replace_tags(u) == [u EXCEPT !.path = SelectSeq(@, LAMBDA seg : seg # "tags")]

\* get_links on a fetched detail page: the dict's "github" entry, or None
get_links(found, homepage, issues_found) ==
    IF ~found THEN [tag |-> "None"]
    ELSE IF has_issues(homepage) /\ ~issues_found THEN [tag |-> "None"]
    ELSE IF has_github(homepage)
    THEN [tag |-> "dict", github |-> replace_tags(homepage), homepage |-> homepage]
    ELSE [tag |-> "None"]

\* info = {"stars": 0, "forks": 0, "watchers": 0, "set": False, "github_link": ""}
info_default ==
    [tag |-> "dict", stars |-> 0, forks |-> 0, watchers |-> 0, set |-> FALSE,
     github_link |-> ""]

\* repo.split("github.com/")[1] raises IndexError unless the separator occurs
split_fails(repo) == repo.host # "github.com"

\* Responses of the forge API: a status and, for the body, a JSON object
\* with the three counts, JSON that is not an object, or no JSON at all.
ApiResponses ==
    { [status |-> 200, body |-> "object", stargazers_count |-> 5, forks_count |-> 1,
       watchers_count |-> 3],
      [status |-> 200, body |-> "array", stargazers_count |-> 0, forks_count |-> 0,
       watchers_count |-> 0],
      [status |-> 200, body |-> "notjson", stargazers_count |-> 0, forks_count |-> 0,
       watchers_count |-> 0] }
    \cup { [status |-> st, body |-> "object", stargazers_count |-> 0, forks_count |-> 0,
            watchers_count |-> 0] : st \in {401, 403, 404, 500} }

\* get_repo_info after `r = await client.get(apiurl, headers=headers)`:
\* the value returned, [tag |-> "raise"] when r.json() raises
\* json.JSONDecodeError (a ValueError, which the except clause does not name)
get_repo_info_response(repo, r) ==
    IF r.status = 401 THEN info_default
    ELSE IF r.status = 404 THEN info_default
    ELSE IF r.status = 403 THEN info_default
    ELSE IF r.status = 200 THEN
        IF r.body = "notjson" THEN [tag |-> "raise", exc |-> "JSONDecodeError"]
        ELSE IF r.body # "object" THEN info_default
        ELSE [info_default EXCEPT !.stars = r.stargazers_count,
                                  !.forks = r.forks_count,
                                  !.watchers = r.watchers_count,
                                  !.github_link = UrlString(repo),
                                  !.set = TRUE]
    ELSE [tag |-> "None"]

\* `if info:` on a dict with five keys, or on None
truthy(info) == info.tag = "dict"

\* -------------------------------------------------- search.process_snippet
searchUnchanged == <<pc, mainVars, textVars, netVars, client, exc, sessionVars, page, snippets,
                     results, libsVars>>

Fail(i, e) == tasks' = [tasks EXCEPT ![i].tpc = "failed", ![i].exc = e,
                                     ![i].pack = [tag |-> "None"]]

\* The task starts: link, package name, then get_version_from_link issues
\* r = await client.get(link, follow_redirects=True)
process_snippet_start(i) ==
    /\ pc = "gather"
    /\ tasks[i].tpc = "new"
    /\ IF tasks[i].snippet.name = None
       THEN Fail(i, "AttributeError")
       ELSE tasks' = [tasks EXCEPT ![i].tpc = "version",
                                   ![i].gets = Append(@, "detail")]
    /\ UNCHANGED searchUnchanged

\* Outcomes of the GET of the detail page: the request raises, the page has
\* no release__version element, or the page has one with this text.
DetailResponses ==
    { [kind |-> "HTTPError", version |-> ""],
      [kind |-> "noelement", version |-> ""],
      [kind |-> "page", version |-> "1.0.0"] }

\* get_version_from_link: version = '[notfound]' before the try; in it,
\* after the response, version = "noversion" and then the element's text
\* (AttributeError when select_one returned None); except Exception logs;
\* finally: return version
get_version_from_link_unset(r) == r.version

get_version_from_link(r) ==
    IF r.kind = "HTTPError" THEN "[notfound]"
    ELSE IF r.kind = "noelement" THEN "noversion"
    ELSE r.version

\* Versions get_version_from_link can return: the text of the detail page's
\* release__version element, "noversion" when the page has none, "[notfound]"
\* when the request raised.
DetailVersions == {get_version_from_link(r) : r \in DetailResponses}

\* get_version_from_link returns; released, description, Package(...); with
\* opts.extra, get_github_info -> get_links issues r = await client.get(pkg_url)
process_snippet_version(i) ==
    /\ pc = "gather"
    /\ tasks[i].tpc = "version"
    /\ \E r \in DetailResponses :
         LET sn == tasks[i].snippet
             version == get_version_from_link(r) IN
         IF sn.created = None
         THEN tasks' = [tasks EXCEPT ![i].detail = r.kind, ![i].tpc = "failed",
                                     ![i].exc = "TypeError"]
         ELSE IF sn.description = None
         THEN tasks' = [tasks EXCEPT ![i].detail = r.kind, ![i].tpc = "failed",
                                     ![i].exc = "AttributeError"]
         ELSE tasks' = [tasks EXCEPT
                ![i].detail = r.kind,
                ![i].pack = Package(sn.name, version, sn.created, sn.description, sn.href),
                ![i].tpc = IF extra THEN "links" ELSE "done",
                ![i].gets = IF extra THEN Append(@, "links") ELSE @]
    /\ UNCHANGED searchUnchanged

\* get_links returns to get_github_info, which returns None or calls
\* get_repo_info; that one returns before its request when the link does not
\* split, or issues r = await client.get(apiurl, headers=headers)
process_snippet_links(i) ==
    /\ pc = "gather"
    /\ tasks[i].tpc = "links"
    /\ \/ Fail(i, "HTTPError")
       \/ \E found \in BOOLEAN, homepage \in Homepages, issues_found \in BOOLEAN :
            LET gh_link == get_links(found, homepage, issues_found) IN
            IF ~truthy(gh_link)
            THEN tasks' = [tasks EXCEPT ![i].tpc = "done", ![i].gh_link = gh_link]
            ELSE IF split_fails(gh_link.github)
            THEN tasks' = [tasks EXCEPT ![i].tpc = "done", ![i].gh_link = gh_link,
                                        ![i].pack = set_gh_info(@, info_default)]
            ELSE tasks' = [tasks EXCEPT ![i].tpc = "repo", ![i].gh_link = gh_link,
                                        ![i].repo = gh_link.github,
                                        ![i].gets = Append(@, "api")]
    /\ UNCHANGED searchUnchanged

\* the forge API answers: get_repo_info returns to get_github_info and that
\* to process_snippet: `if info: pack.set_gh_info(info)`; return pack
process_snippet_repo(i) ==
    /\ pc = "gather"
    /\ tasks[i].tpc = "repo"
    /\ \/ Fail(i, "HTTPError")
       \/ \E r \in ApiResponses :
            LET info == get_repo_info_response(tasks[i].repo, r) IN
            IF info.tag = "raise" THEN Fail(i, info.exc)
            ELSE tasks' = [tasks EXCEPT
                   ![i].tpc = "done",
                   ![i].status = r.status,
                   ![i].pack = IF truthy(info) THEN set_gh_info(@, info) ELSE @]
    /\ UNCHANGED searchUnchanged

\* results = await asyncio.gather(*tasks): every task returned
search_gathered ==
    /\ pc = "gather"
    /\ \A i \in DOMAIN tasks : tasks[i].tpc = "done"
    /\ results' = [i \in DOMAIN tasks |-> tasks[i].pack]
    /\ pc' = "aclose"
    /\ UNCHANGED <<mainVars, textVars, netVars, client, exc, sessionVars, searchVars, libsVars>>

\* asyncio.gather without return_exceptions: the first exception of a task
\* is raised in search, which has no handler for it
search_gather_raises ==
    /\ pc = "gather"
    /\ \E i \in DOMAIN tasks :
         /\ tasks[i].tpc = "failed"
         /\ Raise(tasks[i].exc)
    /\ UNCHANGED <<mainVars, textVars, netVars, client, sessionVars, searchVars, results, libsVars>>

\* await client.aclose(); return results
search_aclose ==
    /\ pc = "aclose"
    /\ client' = "closed"
    /\ closes' = closes + 1
    /\ pc' = "done"
    /\ UNCHANGED <<mainVars, textVars, reqs, exc, sessionVars, searchVars, results,
                   libsVars>>

\* ------------------------------------------------------------ async_main
\* if not args.query: ap.print_help(); return 1
async_main_no_query ==
    /\ pc = "start"
    /\ entry = "search"
    /\ query = <<>>
    /\ exit_code' = 1
    /\ pc' = "exit"
    /\ UNCHANGED <<entry, extra, query, sort, textVars, netVars, client, exc,
                   sessionVars, searchVars, results, libsVars>>

\* except Exception as e: logger.error(...); return 1
async_main_except_narrow ==
    /\ pc = "raised"
    /\ entry = "search"
    /\ IF exc = "HTTPError"
       THEN exit_code' = 1 /\ pc' = "exit"
       ELSE exit_code' = exit_code /\ pc' = "crashed"
    /\ UNCHANGED <<entry, extra, query, sort, textVars, netVars, client, exc,
                   sessionVars, searchVars, results, libsVars>>

async_main_except ==
    /\ pc = "raised"
    /\ entry = "search"
    /\ exit_code' = 1
    /\ pc' = "exit"
    /\ UNCHANGED <<entry, extra, query, sort, textVars, netVars, client, exc,
                   sessionVars, searchVars, results, libsVars>>

\* check_local_libs is awaited outside any try: its exception leaves
\* async_main and asyncio.run, no exit code is returned
async_main_propagates ==
    /\ pc = "raised"
    /\ entry = "locallibs"
    /\ pc' = "crashed"
    /\ UNCHANGED <<mainVars, textVars, netVars, client, exc, sessionVars,
                   searchVars, results, libsVars>>

\* The code points of the strings that records are sorted by (Python
\* compares str values code point by code point).
codepoints(s) ==
    CASE s = "foo" -> <<102, 111, 111>>
      [] s = "bar" -> <<98, 97, 114>>
      [] s = "baz" -> <<98, 97, 122>>
      [] s = "1.0.0" -> <<49, 46, 48, 46, 48>>
      [] s = "10.0" -> <<49, 48, 46, 48>>
      [] s = "9.1" -> <<57, 46, 49>>
      [] s = "noversion" -> <<110, 111, 118, 101, 114, 115, 105, 111, 110>>
      [] s = "[notfound]" -> <<91, 110, 111, 116, 102, 111, 117, 110, 100, 93>>
      [] s = "2024-01-02T03:04:05+0000" -> <<50, 48, 50, 52, 45, 48, 49, 45, 48, 50, 84, 48, 51, 58, 48, 52, 58, 48, 53, 43, 48, 48, 48, 48>>
      [] s = "2023-11-12T13:14:15+0000" -> <<50, 48, 50, 51, 45, 49, 49, 45, 49, 50, 84, 49, 51, 58, 49, 52, 58, 49, 53, 43, 48, 48, 48, 48>>

\* a < b for two sequences of code points
RECURSIVE lex_less(_, _)
lex_less(a, b) ==
    IF b = <<>> THEN FALSE
    ELSE IF a = <<>> THEN TRUE
    ELSE IF a[1] # b[1] THEN a[1] < b[1]
    ELSE lex_less(Tail(a), Tail(b))

\* key(x) < key(y) for key = lambda s: s.<by>
key_less(x, y, by) ==
    CASE by = "released" -> lex_less(codepoints(x.released), codepoints(y.released))
      [] by = "name"     -> lex_less(codepoints(x.name), codepoints(y.name))
      [] by = "version"  -> lex_less(codepoints(x.version), codepoints(y.version))
      [] by = "stars"    -> x.stars < y.stars
      [] by = "watchers" -> x.watchers < y.watchers
      [] by = "forks"    -> x.forks < y.forks

\* sorted(res, key=...): ascending and stable, an element goes behind the
\* elements whose key is not greater than its own
RECURSIVE insert(_, _, _)
insert(s, x, by) ==
    IF s = <<>> THEN <<x>>
    ELSE IF key_less(x, s[Len(s)], by)
    THEN Append(insert(SubSeq(s, 1, Len(s) - 1), x, by), s[Len(s)])
    ELSE Append(s, x)

RECURSIVE sorted(_, _)
sorted(s, by) ==
    IF s = <<>> THEN <<>>
    ELSE insert(sorted(SubSeq(s, 1, Len(s) - 1), by), s[Len(s)], by)

\* if args.sort: the six `if args.sort == ...: res = sorted(res, key=...)`
sort_results_by_name(res, by) ==
    IF by = None THEN res ELSE sorted(res, "name")

sort_results(res, by) ==
    IF by = None THEN res
    ELSE LET r1 == IF by = "released" THEN sorted(res, "released") ELSE res
             r2 == IF by = "name" THEN sorted(r1, "name") ELSE r1
             r3 == IF by = "version" THEN sorted(r2, "version") ELSE r2
             r4 == IF by = "stars" THEN sorted(r3, "stars") ELSE r3
             r5 == IF by = "watchers" THEN sorted(r4, "watchers") ELSE r4
         IN  IF by = "forks" THEN sorted(r5, "forks") ELSE r5

\* check_local_libs returned: the lists are printed, return 0.  search
\* returned: the results are sorted when args.sort is given, table_output
\* prints them, return 0
async_main_return ==
    /\ pc = "done"
    /\ results' = IF entry = "search" THEN sort_results(results, sort) ELSE results
    /\ exit_code' = 0
    /\ pc' = "exit"
    /\ UNCHANGED <<entry, extra, query, sort, textVars, netVars, client, exc,
                   sessionVars, searchVars, libsVars>>

\* ------------------------------------------------------------ the system
\* Command lines: --locallibs alone (--extra and --sort are not read there),
\* or a search with or without query terms, plain or with --extra and
\* --sort stars.
Queries == {<<>>, <<"pip", "search">>}
SortKeys == {"name", "version", "released", "stars", "watchers", "forks"}

Init ==
    /\ pc = "start"
    /\ \/ entry = "locallibs" /\ extra = FALSE /\ sort = None /\ query = <<>>
       \/ entry = "search" /\ extra = FALSE /\ sort = None /\ query \in Queries
       \/ entry = "search" /\ extra = TRUE /\ sort = "stars" /\ query \in Queries
    /\ exit_code = -1
    /\ reqs = <<>>
    /\ closes = 0
    /\ text = <<>>
    /\ field = <<>>
    /\ client = "none"
    /\ exc = None
    /\ challenge = NoChallenge
    /\ answer = <<>>
    /\ c1 = 1
    /\ tried = 0
    /\ posted = 0
    /\ page = 1
    /\ snippets = <<>>
    /\ tasks = <<>>
    /\ results = <<>>
    /\ local_libs = <<>>
    /\ checks = <<>>
    /\ idx = 0
    /\ outdated_libs = <<>>
    /\ error_list = <<>>
    /\ overtaken = FALSE

Next ==
    \/ get_session_open
    \/ get_session_search
    \/ get_session_script
    \/ get_session_solve
    \/ get_session_post
    \/ search_get_snippets
    \/ \E i \in DOMAIN tasks : process_snippet_start(i)
    \/ \E i \in DOMAIN tasks : process_snippet_version(i)
    \/ \E i \in DOMAIN tasks : process_snippet_links(i)
    \/ \E i \in DOMAIN tasks : process_snippet_repo(i)
    \/ search_gathered
    \/ search_gather_raises
    \/ search_aclose
    \/ check_local_libs_gather
    \/ \E i \in DOMAIN checks : check_pypi_version_get(i)
    \/ \E i \in DOMAIN checks : check_pypi_version_response(i)
    \/ \E i \in DOMAIN checks : check_pypi_version_return(i)
    \/ check_local_libs_gathered
    \/ check_local_libs_classify
    \/ check_local_libs_close
    \/ async_main_no_query
    \/ async_main_except
    \/ async_main_propagates
    \/ async_main_return

Spec == Init /\ [][Next]_vars

\* ------------------------------------------------------------ sorting
\* The sort of async_main on its own: search has returned some records,
\* with whatever counts enrichment gave them, and any --sort key is given.
SortPack(name, version, released, stars, forks, watchers) ==
    set_gh_info(Package(name, version, released, "d", "/project/" \o name \o "/"),
                [stars |-> stars, forks |-> forks, watchers |-> watchers,
                 github_link |-> "github.com/o/r"])

SortPool ==
    { SortPack("foo", "9.1", "2024-01-02T03:04:05+0000", 5, 1, 3),
      SortPack("bar", "10.0", "2023-11-12T13:14:15+0000", 1, 0, 3),
      SortPack("baz", "1.0.0", "2024-01-02T03:04:05+0000", 3, 1, 0),
      SortPack("foo", "9.1", "2023-11-12T13:14:15+0000", 3, 0, 0) }

\* the finished process_snippet task that returned this record
SortTask(pack) ==
    [tpc |-> "done",
     snippet |-> [href |-> pack.link, name |-> pack.name, created |-> pack.released,
                  description |-> pack.description],
     pack |-> pack, repo |-> Url("github.com", <<"o", "r">>), status |-> 200,
     exc |-> None, gets |-> <<"detail", "links", "api">>, detail |-> "page",
     gh_link |-> [tag |-> "dict", github |-> Url("github.com", <<"o", "r">>),
                  homepage |-> Url("github.com", <<"o", "r">>)]]

InitSort ==
    /\ pc = "done"
    /\ entry = "search"
    /\ extra = TRUE
    /\ sort \in SortKeys
    /\ query = <<"pip", "search">>
    /\ exit_code = -1
    /\ reqs = <<Request("search", "pipsearch", 0), Request("script", "", 0),
                Request("callback", "", 0)>>
               \o [n \in 1..page_size |-> Request("search", "pipsearch", n)]
    /\ closes = 1
    /\ client = "closed"
    /\ exc = None
    /\ challenge = NoChallenge
    /\ answer = <<>>
    /\ c1 = 1
    /\ tried = 0
    /\ posted = 1
    /\ page = page_size
    /\ \E n \in 0..MaxSort : \E packs \in [1..n -> SortPool] :
         /\ results = packs
         /\ tasks = [i \in 1..n |-> SortTask(packs[i])]
         /\ snippets = [i \in 1..n |-> SortTask(packs[i]).snippet]
    /\ local_libs = <<>>
    /\ checks = <<>>
    /\ idx = 0
    /\ outdated_libs = <<>>
    /\ error_list = <<>>
    /\ overtaken = FALSE
    /\ text = <<>>
    /\ field = <<>>

NextSort == async_main_return

SpecSort == InitSort /\ [][NextSort]_vars

\* ------------------------------------------------------ whitespace in fields
\* The name and description of a record on their own: a text is a sequence
\* of characters, as the element of the fragment holds it.
Chars == {"a", " ", "\t", "\n"}

\* what \s and str.strip take for whitespace
isspace(c) == c \in {" ", "\t", "\n"}

RECURSIVE lstrip(_)
lstrip(s) ==
    IF s = <<>> THEN s
    ELSE IF isspace(s[1]) THEN lstrip(Tail(s))
    ELSE s

RECURSIVE rstrip(_)
rstrip(s) ==
    IF s = <<>> THEN s
    ELSE IF isspace(s[Len(s)]) THEN rstrip(SubSeq(s, 1, Len(s) - 1))
    ELSE s

\* text.strip()
strip(s) == rstrip(lstrip(s))

\* re.sub(r"\s+", " ", s): every maximal run of whitespace becomes a space
RECURSIVE re_sub_each(_)
re_sub_each(s) ==
    IF s = <<>> THEN s
    ELSE IF isspace(s[1]) THEN <<" ">> \o re_sub_each(Tail(s))
    ELSE <<s[1]>> \o re_sub_each(Tail(s))

RECURSIVE re_sub(_)
re_sub(s) ==
    IF s = <<>> THEN s
    ELSE IF isspace(s[1]) THEN <<" ">> \o re_sub(lstrip(s))
    ELSE <<s[1]>> \o re_sub(Tail(s))

\* package = re.sub(r"\s+", " ", <name element>.text.strip()), and the same
\* expression for description
process_snippet_field ==
    /\ pc = "text"
    /\ field' = re_sub(strip(text))
    /\ pc' = "field"
    /\ UNCHANGED <<mainVars, text, netVars, client, exc, sessionVars, searchVars,
                   results, libsVars>>

InitText ==
    /\ pc = "text"
    /\ \E n \in 0..MaxText : text \in [1..n -> Chars]
    /\ field = <<>>
    /\ entry = "search"
    /\ extra = FALSE
    /\ sort = None
    /\ query = <<"pip", "search">>
    /\ exit_code = -1
    /\ reqs = <<>>
    /\ closes = 0
    /\ client = "none"
    /\ exc = None
    /\ challenge = NoChallenge
    /\ answer = <<>>
    /\ c1 = 1
    /\ tried = 0
    /\ posted = 0
    /\ page = 1
    /\ snippets = <<>>
    /\ tasks = <<>>
    /\ results = <<>>
    /\ local_libs = <<>>
    /\ checks = <<>>
    /\ idx = 0
    /\ outdated_libs = <<>>
    /\ error_list = <<>>
    /\ overtaken = FALSE

NextText == process_snippet_field

SpecText == InitText /\ [][NextText]_vars

\* ------------------------------------------------- check_local_libs, fair
\* check_local_libs from the moment get_session has returned its client,
\* get_local_libs has read n entries and one coroutine per entry is made.
\* The event loop runs every coroutine that can run, and every request and
\* sleep ends: each step of each check, and each step of check_local_libs
\* and async_main, is taken if it stays possible.
installed(n) ==
    [i \in 1..n |-> [name |-> IF i % 2 = 1 THEN "foo" ELSE "bar",
                     version |-> IF i % 2 = 1 THEN "1.0.0" ELSE "2.0.0",
                     distpath |-> i]]

InitLive ==
    /\ pc = "gather_libs"
    /\ entry = "locallibs"
    /\ extra = FALSE
    /\ sort = None
    /\ query = <<>>
    /\ exit_code = -1
    /\ reqs = <<Request("search", "", 0), Request("script", "", 0),
                Request("callback", "", 0)>>
    /\ closes = 0
    /\ client = "open"
    /\ exc = None
    /\ challenge = NoChallenge
    /\ answer = <<>>
    /\ c1 = 1
    /\ tried = 0
    /\ posted = 1
    /\ page = 1
    /\ snippets = <<>>
    /\ tasks = <<>>
    /\ results = <<>>
    /\ \E n \in 0..MaxLibs :
         /\ local_libs = installed(n)
         /\ checks = [i \in 1..n |-> NewCheck]
    /\ idx = 0
    /\ outdated_libs = <<>>
    /\ error_list = <<>>
    /\ overtaken = FALSE
    /\ text = <<>>
    /\ field = <<>>

check_pypi_version_step(i) ==
    /\ i \in DOMAIN checks
    /\ \/ check_pypi_version_get(i)
       \/ check_pypi_version_response(i)
       \/ check_pypi_version_return(i)

NextLive ==
    \/ \E i \in 1..MaxLibs : check_pypi_version_step(i)
    \/ check_local_libs_gathered
    \/ check_local_libs_classify
    \/ check_local_libs_close
    \/ async_main_return

SpecLive ==
    /\ InitLive
    /\ [][NextLive]_vars
    /\ \A i \in 1..MaxLibs : WF_vars(check_pypi_version_step(i))
    /\ WF_vars(check_local_libs_gathered)
    /\ WF_vars(check_local_libs_classify)
    /\ WF_vars(check_local_libs_close)
    /\ WF_vars(async_main_return)

\* ------------------------------------------------------------ properties
finished == pc \in {"done", "raised"}

\* C1: whenever search() or check_local_libs() has returned or raised,
\* the client get_session created has been closed.
C1_ClosedOnEveryExit == finished => client = "closed"

\* C2: when search() has ended and the task of some fragment failed,
\* search() has returned, and its result holds the record of every sibling
\* task that assembled one.
C2_FailureFailsOnlyItsFragment ==
    (entry = "search" /\ finished /\ \E i \in DOMAIN tasks : tasks[i].tpc = "failed")
    => /\ pc = "done"
       /\ \A i \in DOMAIN tasks :
            tasks[i].tpc = "done" =>
               \E k \in DOMAIN results : results[k] = tasks[i].pack

\* C3: no response of the forge API, whatever its status and body, makes a
\* task fail or search() raise: the decoding error of a body that is not
\* JSON never leaves get_github_info.
C3_EnrichmentNeverRaises ==
    /\ \A i \in DOMAIN tasks : tasks[i].exc # "JSONDecodeError"
    /\ exc # "JSONDecodeError"

\* C4: a Package whose info_set is true was enriched from a 200 response
\* of the forge API: its github_link is the repository link that was queried.
C4_InfoSetOnlyWhenPopulated ==
    \A i \in DOMAIN tasks :
       (tasks[i].pack.tag = "Package" /\ tasks[i].pack.info_set)
       => /\ tasks[i].status = 200
          /\ tasks[i].pack.github_link = UrlString(tasks[i].repo)

\* the two-character suffixes whose digest with the base is the target
Matches(base, hash) ==
    {m \in (1..AlphabetSize) \X (1..AlphabetSize) : sha256(base, m[1], m[2]) = hash}

\* C5: when the solver has left its loops on a challenge that has a
\* matching suffix, the answer is a matching suffix, no matching suffix
\* comes before it in the enumeration order (first character, then second),
\* and exactly the candidates up to it were hashed.
C5_FirstMatchInOrder ==
    pc = "gs_post" =>
       LET M == Matches(challenge.base, challenge.hash) IN
       M # {} =>
          /\ answer \in M
          /\ \A m \in M : \/ answer[1] < m[1]
                           \/ (answer[1] = m[1] /\ answer[2] <= m[2])
          /\ tried = (answer[1] - 1) * AlphabetSize + answer[2]

\* a challenge with several matching suffixes has been solved
C5_Witness ==
    /\ pc = "gs_post"
    /\ answer # <<>>
    /\ Cardinality(Matches(challenge.base, challenge.hash)) > 1

\* C6: when the solver has left its loops without a match, it hashed at
\* most 62*62 candidates, nothing was posted to the callback endpoint and
\* get_session does not go on to return the client.
C6_UnsolvableIsFatal ==
    (pc = "gs_post" /\ answer = <<>>)
    => /\ tried <= AlphabetSize * AlphabetSize
       /\ posted = 0

Timeout2ThenOk == <<"ConnectTimeout", "ConnectTimeout", "ok">>

\* C7: while the third request of a check is in flight after two connect
\* timeouts, exactly the backoff sleeps 0.5s and 1s have been made, in that
\* order; when that request succeeds the check ends with the name and the
\* version parsed from the page header, and no further backoff sleep.
C7_TwoTimeoutsThenSuccess ==
    \A i \in DOMAIN checks :
       LET c == checks[i] IN
       /\ (c.tpc = "get" /\ c.outcomes = <<"ConnectTimeout", "ConnectTimeout">>)
          => (c.backoffs = <<5, 10>> /\ c.requests = 3)
       /\ c.outcomes = Timeout2ThenOk
          => /\ c.backoffs = <<5, 10>>
             /\ c.requests = 3
             /\ Len(c.header) = 2
             /\ c.pkg_name = c.header[1]
             /\ c.pkg_version = c.header[2]
             /\ c.pkg_version \in RemoteVersions
             /\ c.tpc \in {"throttle", "done"}

\* a check has returned after two timeouts and a success
C7_Witness ==
    \E i \in DOMAIN checks :
       checks[i].outcomes = Timeout2ThenOk /\ checks[i].tpc = "done"

Timeout3 == <<"ConnectTimeout", "ConnectTimeout", "ConnectTimeout">>

\* C8: no check makes more than 3 requests; a check whose 3 requests all
\* timed out returns (None, None), and once check_local_libs has returned
\* its entry is in the errored list.
C8_AtMostThreeRequests ==
    \A i \in DOMAIN checks :
       LET c == checks[i] IN
       /\ c.requests <= 3
       /\ Len(c.outcomes) <= 3
       /\ (c.outcomes = Timeout3 /\ c.tpc = "done")
          => (c.pkg_name = None /\ c.pkg_version = None)
       /\ (c.outcomes = Timeout3 /\ pc = "done")
          => \E k \in DOMAIN error_list : error_list[k] = local_libs[i]

\* check_local_libs has returned and some check had timed out 3 times
C8_Witness ==
    /\ pc = "done"
    /\ \E i \in DOMAIN checks : checks[i].outcomes = Timeout3

\* the check met an exception other than a connect timeout
Aborted(c) ==
    \E k \in DOMAIN c.outcomes : c.outcomes[k] \notin {"ConnectTimeout", "ok"}

\* C9: an exception other than a connect timeout is the last thing a
\* check's loop sees: the failed request is its last request, every backoff
\* sleep was made before it, and the check returns (None, None); the
\* iteration that classifies the entry appends it to the errored list and
\* leaves the outdated list as it was.
C9_OtherExceptionAborts ==
    /\ [](\A i \in DOMAIN checks :
            LET c == checks[i] IN
            Aborted(c) =>
               /\ c.outcomes[Len(c.outcomes)] \notin {"ConnectTimeout", "ok"}
               /\ \A k \in 1..(Len(c.outcomes) - 1) : c.outcomes[k] = "ConnectTimeout"
               /\ c.requests = Len(c.outcomes)
               /\ Len(c.backoffs) = Len(c.outcomes) - 1
               /\ c.tpc \in {"throttle", "done"}
               /\ c.pkg_name = None /\ c.pkg_version = None
               /\ pc = "done" => \E k \in DOMAIN error_list :
                                    error_list[k] = local_libs[i])
    /\ [][(pc = "classify" /\ idx <= Len(results) /\ Aborted(checks[idx]))
          => /\ error_list' = Append(error_list, local_libs[idx])
             /\ outdated_libs' = outdated_libs]_vars
    /\ []((pc = "done" /\ entry = "locallibs"
            /\ \A i \in DOMAIN checks : Aborted(checks[i]))
           => (outdated_libs = <<>> /\ error_list = local_libs))

\* check_local_libs has returned after a check was aborted at its first
\* request and another after a timeout
C9_Witness ==
    /\ pc = "done"
    /\ \E i \in DOMAIN checks : Aborted(checks[i]) /\ Len(checks[i].outcomes) = 1
    /\ \E i \in DOMAIN checks : Aborted(checks[i]) /\ Len(checks[i].outcomes) = 2

\* the result of entry i has both fields
Resolved(i) == results[i].value[1] # None /\ results[i].value[2] # None

\* positions below n whose entry is errored, outdated, up to date
ErroredBelow(n) == {i \in 1..(n - 1) : ~Resolved(i)}
OutdatedBelow(n) ==
    {i \in 1..(n - 1) : Resolved(i) /\ results[i].value[2] # local_libs[i].version}
UpToDateBelow(n) ==
    {i \in 1..(n - 1) : Resolved(i) /\ results[i].value[2] = local_libs[i].version}

\* the elements of seq at the positions in S, in order
RECURSIVE Restrict(_, _)
Restrict(seq, S) ==
    IF seq = <<>> THEN <<>>
    ELSE LET front == Restrict(SubSeq(seq, 1, Len(seq) - 1), S) IN
         IF Len(seq) \in S THEN Append(front, seq[Len(seq)]) ELSE front

\* C10: after every iteration of the classification loop, and when
\* check_local_libs has returned, the errored list holds exactly the
\* entries seen so far whose result is unresolved, the outdated list the
\* names of exactly those whose remote version differs, each once and in
\* order; with the up-to-date entries they account for every entry seen:
\* |outdated| + |errored| + |up to date| is their number.
C10_NoEntryDropped ==
    (pc \in {"classify", "done"} /\ entry = "locallibs") =>
       /\ Len(results) = Len(local_libs)
       /\ error_list = Restrict(local_libs, ErroredBelow(idx))
       /\ outdated_libs =
             Restrict([i \in DOMAIN local_libs |-> local_libs[i].name], OutdatedBelow(idx))
       /\ Len(outdated_libs) + Len(error_list) + Cardinality(UpToDateBelow(idx))
             = idx - 1
       /\ pc = "done" => idx - 1 = Len(local_libs)

\* check_local_libs has returned with one entry errored and another up to
\* date, in neither list
C10_Witness ==
    /\ pc = "done" /\ entry = "locallibs"
    /\ Len(error_list) = 1 /\ Len(outdated_libs) = 0
    /\ Len(local_libs) = 2

\* check_local_libs has returned its two lists
returned == entry = "locallibs" /\ pc \in {"done", "exit"}

Range(seq) == {seq[i] : i \in DOMAIN seq}

\* the resolved remote version of entry i is not the local one
Differs(i) == Resolved(i) /\ results[i].value[2] # local_libs[i].version

\* C11: for an entry whose check resolved with both fields, the iteration
\* of the classification loop appends its name to the outdated list exactly
\* when the remote version differs from the local one, and never appends
\* the entry to the errored list.  So when check_local_libs has returned
\* no resolved entry is in the errored list, and the name of a resolved
\* entry is in the outdated list iff the remote version of an entry of that
\* name differs from its local version (the entry itself, when no other
\* entry has its name).  A single entry foo 1.0.0 resolved to (foo, 1.1.0)
\* gives outdated = [foo] and errored = [].
C11_OutdatedIffVersionsDiffer ==
    /\ [][(pc = "classify" /\ idx <= Len(results) /\ Resolved(idx)) =>
            /\ error_list' = error_list
            /\ outdated_libs' = IF results[idx].value[2] # local_libs[idx].version
                                THEN Append(outdated_libs, local_libs[idx].name)
                                ELSE outdated_libs]_vars
    /\ [](returned =>
            \A i \in DOMAIN local_libs :
               Resolved(i) =>
                  /\ local_libs[i] \notin Range(error_list)
                  /\ local_libs[i].name \in Range(outdated_libs) <=>
                        \E j \in DOMAIN local_libs :
                           local_libs[j].name = local_libs[i].name /\ Differs(j))
    /\ []((returned /\ Len(local_libs) = 1 /\ Differs(1)) =>
            (outdated_libs = <<local_libs[1].name>> /\ error_list = <<>>))

\* check_local_libs has returned for the single entry foo 1.0.0, whose
\* check resolved to (foo, 1.1.0)
C11_Witness ==
    /\ returned /\ pc = "done"
    /\ Len(local_libs) = 1
    /\ local_libs[1].name = "foo" /\ local_libs[1].version = "1.0.0"
    /\ results[1].value = <<"foo", "1.1.0">>
    /\ outdated_libs = <<"foo">> /\ error_list = <<>>

\* the check of entry i is over without a version: its request raised on
\* every attempt made, or the page could not be parsed
CheckFailed(i) ==
    /\ checks[i].tpc \in {"throttle", "done"}
    /\ checks[i].outcomes[Len(checks[i].outcomes)] # "ok"

\* the check_pypi_version task of entry j can take its next step
CanStep(j) ==
    ENABLED (\/ check_pypi_version_get(j)
             \/ check_pypi_version_response(j)
             \/ check_pypi_version_return(j))

\* C12: a failed check of check_local_libs ends as the value (None, None) in
\* the gathered results and its entry is put in the errored list.  From
\* the moment the checks run, check_local_libs never raises; while a check
\* has failed every sibling that is not done can still take its next
\* step; and when check_local_libs has returned every entry has been
\* classified, the failed ones as errored, the resolved siblings not.
C12_FailedCheckIsErroredValue ==
    /\ [][(pc \in {"gather_libs", "classify"}) =>
            (pc' \in {"gather_libs", "classify", "done"})]_vars
    /\ [](pc = "gather_libs" =>
            \A i, j \in DOMAIN checks :
               (CheckFailed(i) /\ i # j /\ checks[j].tpc # "done") => CanStep(j))
    /\ []((entry = "locallibs" /\ pc \in {"classify", "done", "exit"}) =>
            \A i \in DOMAIN checks :
               /\ checks[i].tpc = "done"
               /\ CheckFailed(i) =>
                     /\ results[i] = [type |-> "tuple", value |-> <<None, None>>]
                     /\ i < idx => local_libs[i] \in Range(error_list)
               /\ ~CheckFailed(i) => local_libs[i] \notin Range(error_list))
    /\ [](returned => (idx = Len(local_libs) + 1 /\ exc = None))

\* check_local_libs has returned: the first check failed and its entry is
\* the errored list, the second resolved and its name is the outdated list
C12_Witness ==
    /\ returned /\ pc = "done"
    /\ Len(local_libs) = 2
    /\ CheckFailed(1) /\ ~CheckFailed(2)
    /\ error_list = <<local_libs[1]>>
    /\ outdated_libs = <<local_libs[2].name>>

\* the GET of the detail page raised, or the page has no version element
VersionLookupFailed(t) == t.detail \in {"HTTPError", "noelement"}

\* C13: when get_version_from_link fails for a fragment, because its request
\* raised or because the detail page has no version element, the step of
\* the task that receives its value does not fail unless the fragment
\* itself lacks its date or description, and otherwise assembles the record
\* from the fragment's fields with the version "[notfound]" (request
\* raised) or "noversion" (no element); every record assembled after a
\* failed lookup carries that sentinel.
C13_FailedVersionGivesSentinel ==
    /\ [][\A i \in DOMAIN tasks :
            (/\ i \in DOMAIN tasks'
             /\ tasks[i].tpc = "version"
             /\ tasks'[i].tpc # "version"
             /\ VersionLookupFailed(tasks'[i])) =>
               LET sn == tasks[i].snippet
                   sentinel == IF tasks'[i].detail = "HTTPError" THEN "[notfound]"
                               ELSE "noversion"
               IN  IF sn.created = None \/ sn.description = None
                   THEN tasks'[i].tpc = "failed"
                        /\ tasks'[i].exc \in {"TypeError", "AttributeError"}
                   ELSE /\ tasks'[i].tpc \in {"links", "done"}
                        /\ tasks'[i].exc = None
                        /\ tasks'[i].pack =
                              Package(sn.name, sentinel, sn.created, sn.description,
                                      sn.href)]_vars
    /\ [](\A i \in DOMAIN tasks :
            (VersionLookupFailed(tasks[i]) /\ tasks[i].pack.tag = "Package") =>
               tasks[i].pack.version \in {"[notfound]", "noversion"})
    /\ []((entry = "search" /\ pc \in {"aclose", "done"}) =>
            \A i \in DOMAIN tasks :
               VersionLookupFailed(tasks[i]) =>
                  \E k \in DOMAIN results :
                     /\ results[k].name = tasks[i].snippet.name
                     /\ results[k].version \in {"[notfound]", "noversion"})

\* search has returned a record whose version is "[notfound]": the request
\* for its detail page raised
C13_Witness ==
    /\ entry = "search" /\ pc = "done"
    /\ \E i \in DOMAIN tasks :
         /\ tasks[i].detail = "HTTPError"
         /\ results[i].version = "[notfound]"

\* C14: async_main returns 0 or 1.  A search run returns 0 exactly when a
\* query was given and search() returned, and 1 when no query was given or
\* search() raised: whatever exception leaves search(), the next step of
\* async_main is the handler that returns 1.  With no query nothing is ever
\* requested: no client is made, no request or POST is issued and no task
\* exists.  A --locallibs run whose check_local_libs returned gives 0.
C14_ExitCodes ==
    /\ [](exit_code \in {-1, 0, 1} /\ (pc = "exit" <=> exit_code # -1))
    /\ []((pc = "exit" /\ entry = "search") =>
            /\ exit_code = 0 <=> (query # <<>> /\ exc = None /\ client = "closed")
            /\ exit_code = 1 <=> (query = <<>> \/ exc # None))
    /\ []((pc = "exit" /\ entry = "locallibs") => (exit_code = 0 /\ exc = None))
    /\ [][(pc = "raised" /\ entry = "search") =>
            (pc' = "exit" /\ exit_code' = 1)]_vars
    /\ []((pc = "raised" /\ entry = "search") => ENABLED async_main_except)
    /\ [][(pc = "done") => (pc' = "exit" /\ exit_code' = 0)]_vars
    /\ []((entry = "search" /\ query = <<>>) =>
            /\ pc \in {"start", "exit"}
            /\ client = "none" /\ reqs = <<>> /\ posted = 0
            /\ tasks = <<>> /\ snippets = <<>>)

\* a search run has ended with exit code 1 after an exception left search()
C14_Witness ==
    /\ entry = "search" /\ pc = "exit" /\ exit_code = 1
    /\ exc # None /\ query # <<>>

\* the records search returned, before the sort
Assembled == [i \in DOMAIN tasks |-> tasks[i].pack]

Count(seq, x) == Cardinality({i \in DOMAIN seq : seq[i] = x})

\* the value of the selected key of x is greater than that of y
KeyGreater(x, y) ==
    CASE sort = "name"     -> lex_less(codepoints(y.name), codepoints(x.name))
      [] sort = "version"  -> lex_less(codepoints(y.version), codepoints(x.version))
      [] sort = "released" -> lex_less(codepoints(y.released), codepoints(x.released))
      [] sort = "stars"    -> x.stars > y.stars
      [] sort = "watchers" -> x.watchers > y.watchers
      [] sort = "forks"    -> x.forks > y.forks

\* async_main has sorted the records search returned
Sorted == pc = "exit" /\ entry = "search" /\ exit_code = 0 /\ sort # None

\* C15: when a sort key is given, the records async_main outputs are a
\* permutation of the records search assembled and no record comes before
\* one with a smaller value of the key; records with star counts 5, 1, 3
\* sorted by stars come out with 1, 3, 5.
C15_SortedAscendingPermutation ==
    Sorted =>
       /\ Len(results) = Len(Assembled)
       /\ \A p \in Range(Assembled) \cup Range(results) :
             Count(results, p) = Count(Assembled, p)
       /\ \A i, j \in DOMAIN results :
             i < j => ~KeyGreater(results[i], results[j])
       /\ (sort = "stars" /\ [i \in DOMAIN tasks |-> Assembled[i].stars] = <<5, 1, 3>>)
             => [i \in DOMAIN results |-> results[i].stars] = <<1, 3, 5>>

\* records with star counts 5, 1, 3 have been sorted by stars
C15_Witness ==
    /\ Sorted /\ sort = "stars"
    /\ [i \in DOMAIN tasks |-> Assembled[i].stars] = <<5, 1, 3>>
    /\ [i \in DOMAIN results |-> results[i].stars] = <<1, 3, 5>>

\* the characters of s that are not whitespace, in order
Letters(s) == SelectSeq(s, LAMBDA c : ~isspace(c))

\* positions where a word of s starts
WordStarts(s) == {i \in DOMAIN s : ~isspace(s[i]) /\ (i = 1 \/ isspace(s[i - 1]))}

\* C16: the field made from the text of a name or description element has
\* no whitespace at either end, its only whitespace character is the
\* space and no two of them are adjacent; it has the words of the text,
\* letter for letter and as many; and normalizing it again gives the same
\* field.
C16_WhitespaceNormalized ==
    pc = "field" =>
       /\ field # <<>> => (~isspace(field[1]) /\ ~isspace(field[Len(field)]))
       /\ \A i \in DOMAIN field :
             isspace(field[i]) =>
                (field[i] = " " /\ i > 1 /\ ~isspace(field[i - 1]))
       /\ Letters(field) = Letters(text)
       /\ Cardinality(WordStarts(field)) = Cardinality(WordStarts(text))
       /\ re_sub(strip(field)) = field

\* a text that starts with whitespace and has a run of two whitespace
\* characters between its words has become "a a"
C16_Witness ==
    /\ pc = "field"
    /\ text = <<" ", "a", "\t", "\n", "a">>
    /\ field = <<"a", " ", "a">>

\* the paginated GETs of get_snippets, in the order they were issued
PageRequests == SelectSeq(reqs, LAMBDA r : r.endpoint = "search" /\ r.page > 0)

\* the GETs get_snippets issues for pages 1..n
PagesUpTo(n) == [k \in 1..n |-> [endpoint |-> "search", q |-> join("", query), page |-> k]]

\* get_snippets has returned to search
SnippetsReturned ==
    entry = "search" /\ (pc \in {"gather", "aclose", "done"} \/ exit_code = 0)

\* C17: get_snippets issues one GET per page, for the pages 1, 2, ... in
\* order and each with the params {q: query, page: n}: while it waits for
\* page n it has requested exactly the pages 1..n, and when it has returned
\* exactly the pages 1..page_size.  Each response only appends its
\* fragments behind those of the pages before it, nothing else changes the
\* list, and search makes one task per fragment in that order.  A page with
\* no fragment is processed like any other: only a failing request raises.
C17_OneGetPerPageInOrder ==
    /\ [](pc = "get_snippets" => PageRequests = PagesUpTo(page))
    /\ [](SnippetsReturned => PageRequests = PagesUpTo(page_size))
    /\ [](Len(PageRequests) <= page_size)
    /\ [][(pc = "get_snippets" /\ pc' # "raised") =>
            /\ Len(snippets') >= Len(snippets)
            /\ SubSeq(snippets', 1, Len(snippets)) = snippets]_vars
    /\ [][(pc # "get_snippets" \/ pc' = "raised") => snippets' = snippets]_vars
    /\ [][(pc = "get_snippets" /\ pc' = "raised") => exc' = "HTTPError"]_vars
    /\ [](pc = "get_snippets" =>
            ENABLED (search_get_snippets /\ snippets' = snippets /\ pc' # "raised"))
    /\ [](SnippetsReturned =>
            (Len(tasks) = Len(snippets)
             /\ \A i \in DOMAIN tasks : tasks[i].snippet = snippets[i]))

\* get_snippets has returned two different fragments after the GETs of
\* page 1 and page 2
C17_Witness ==
    /\ pc = "gather"
    /\ PageRequests = PagesUpTo(page_size)
    /\ Len(snippets) = 2 /\ snippets[1] # snippets[2]

\* a run that made a client has ended: search or check_local_libs returned
\* or raised
Ended == client # "none" /\ pc \in {"done", "raised", "exit", "crashed"}

\* every fan-out task has completed
AllTasksOver ==
    /\ \A i \in DOMAIN tasks : tasks[i].tpc \in {"done", "failed"}
    /\ \A i \in DOMAIN checks : checks[i].tpc = "done"

\* C18: the client is closed exactly once, and only after every fan-out
\* task has completed: aclose() is never called twice, a run that has ended
\* has called it once, and while the client is closed no task is still in
\* flight (so none issues a request on it).
C18_ClosedExactlyOnceAfterTasks ==
    /\ closes <= 1
    /\ Ended => closes = 1
    /\ client = "closed" => AllTasksOver

\* the three requests of get_session, in order
SessionRequests ==
    <<[endpoint |-> "search", q |-> join("", query), page |-> 0],
      [endpoint |-> "script", q |-> "", page |-> 0],
      [endpoint |-> "callback", q |-> "", page |-> 0]>>

IsPrefix(a, b) == Len(a) <= Len(b) /\ \A k \in DOMAIN a : a[k] = b[k]

\* some paginated GET or some request of a task has been issued
SearchStarted ==
    \/ PageRequests # <<>>
    \/ \E i \in DOMAIN tasks : tasks[i].gets # <<>>
    \/ \E i \in DOMAIN checks : checks[i].requests > 0

\* C19: the requests of a run are, in this order, the initial search GET,
\* the script GET, the POST to the callback, and only then the paginated
\* GETs; no paginated GET, detail GET or other request of a task is issued
\* before all three session requests, the POST included.  When the script
\* reference or the challenge cannot be parsed, get_session raises
\* IndexError: no session request is repeated, no POST is made, and no
\* paginated GET or task ever exists in that run.
C19_SessionBeforeSearch ==
    /\ [](IsPrefix(reqs, SessionRequests \o PagesUpTo(page_size)))
    /\ [](SearchStarted =>
            (IsPrefix(SessionRequests, reqs) /\ posted = 1))
    /\ [][(pc \in {"gs_search", "gs_script"} /\ pc' = "raised") => reqs' = reqs]_vars
    /\ [](exc = "IndexError" =>
            /\ pc \in {"raised", "exit", "crashed"}
            /\ Len(reqs) \in {1, 2}
            /\ posted = 0
            /\ ~SearchStarted
            /\ tasks = <<>> /\ checks = <<>>)
    /\ [][(exc = "IndexError") =>
            (reqs' = reqs /\ tasks' = tasks /\ checks' = checks /\ posted' = posted)]_vars

\* the script was fetched but the challenge could not be parsed: get_session
\* has raised after the search GET and the script GET
C19_Witness ==
    /\ pc = "raised" /\ exc = "IndexError"
    /\ reqs = SubSeq(SessionRequests, 1, 2)

\* C20: a --locallibs run issues no request to the search endpoint, the
\* challenge script or the challenge callback, and no failure to parse the
\* challenge ends it: it never raises the IndexError of get_session.
C20_LocalLibsAvoidsSearchEndpoint ==
    entry = "locallibs" =>
       /\ \A k \in DOMAIN reqs :
             reqs[k].endpoint \notin {"search", "script", "callback"}
       /\ posted = 0
       /\ exc # "IndexError"

\* the source forge
ForgeHost == "github.com"

\* u without a trailing "tags" segment
StripTags(u) ==
    IF u.path # <<>> /\ u.path[Len(u.path)] = "tags"
    THEN [u EXCEPT !.path = SubSeq(@, 1, Len(@) - 1)]
    ELSE u

\* C21: the link resolution of a task returns a link only for a homepage on
\* the forge host: whenever get_links returned a dict to a task, the
\* homepage is on github.com, the repository link is that homepage without
\* a trailing "tags" segment, and the task has queried the forge API for it.
C21_LinkOnlyForForgeHost ==
    \A i \in DOMAIN tasks :
       tasks[i].gh_link.tag = "dict" =>
          /\ tasks[i].gh_link.homepage.host = ForgeHost
          /\ tasks[i].gh_link.github = StripTags(tasks[i].gh_link.homepage)
          /\ tasks[i].gets = <<"detail", "links", "api">>

\* C22: every request sent to the search endpoint, the GET of get_session
\* and each paginated GET, carries as q the query terms joined with single
\* spaces.
C22_QueryJoinedWithSpaces ==
    \A k \in DOMAIN reqs :
       reqs[k].endpoint = "search" => reqs[k].q = join(" ", query)

\* C23: a check_pypi_version task is always at one of its awaits or has
\* returned, it never ends by an exception; at every moment its name and
\* version are both None or both present, whatever the outcomes of its
\* attempts were, and both are present exactly when its last attempt
\* succeeded; the values gathered from the tasks are such pairs.
C23_PairBothOrNeither ==
    /\ \A i \in DOMAIN checks :
          LET c == checks[i] IN
          /\ c.tpc \in {"new", "get", "sleep", "throttle", "done"}
          /\ (c.pkg_name = None) <=> (c.pkg_version = None)
          /\ c.tpc \in {"throttle", "done"} =>
                ((c.pkg_name # None) <=> (c.outcomes[Len(c.outcomes)] = "ok"))
    /\ \A i \in DOMAIN results :
          entry = "locallibs" =>
             /\ results[i].type = "tuple"
             /\ Len(results[i].value) = 2
             /\ (results[i].value[1] = None) <=> (results[i].value[2] = None)
             /\ results[i].value = <<checks[i].pkg_name, checks[i].pkg_version>>

\* a check has returned (None, None) after a connect timeout and then a
\* page whose title has a single field
C23_Witness ==
    /\ pc = "classify"
    /\ \E i \in DOMAIN checks :
         /\ checks[i].outcomes = <<"ConnectTimeout", "ValueError">>
         /\ Len(checks[i].header) = 1
         /\ results[i].value = <<None, None>>

\* C24: in whatever order the checks returned, the value at position i of
\* the gathered results is the pair returned by the check started for
\* local entry i, a resolved one carries the name requested for entry i,
\* and the classification of entry i follows that value: the entry is in
\* the errored list exactly when its own check did not resolve.
C24_ResultOfOwnCheck ==
    (entry = "locallibs" /\ pc \in {"classify", "done", "exit"}) =>
       /\ Len(results) = Len(local_libs)
       /\ \A i \in DOMAIN local_libs :
             /\ results[i].value = <<checks[i].pkg_name, checks[i].pkg_version>>
             /\ checks[i].pkg_name # None =>
                   (checks[i].header[1] = local_libs[i].name
                    /\ results[i].value[1] = local_libs[i].name)
             /\ i < idx =>
                   ((local_libs[i] \in Range(error_list)) <=> (checks[i].pkg_name = None))

\* the check of the second entry returned before that of the first, both
\* resolved, and each entry was classified by the result for its own name
C24_Witness ==
    /\ pc = "done" /\ entry = "locallibs"
    /\ overtaken
    /\ Len(local_libs) = 2
    /\ local_libs[1].name # local_libs[2].name
    /\ results[1].value[1] = local_libs[1].name
    /\ results[2].value[1] = local_libs[2].name

\* check_local_libs has returned both lists, with every entry classified
\* and the client closed
ReturnedClosed ==
    /\ returned
    /\ client = "closed" /\ closes = 1
    /\ exc = None
    /\ \A i \in DOMAIN checks : checks[i].tpc = "done"
    /\ Len(results) = Len(local_libs)
    /\ idx = Len(local_libs) + 1
    /\ Len(error_list) + Len(outdated_libs) <= Len(local_libs)

\* C25: once get_session has returned, with every step that stays possible
\* eventually taken, the check of every local entry eventually returns,
\* and check_local_libs eventually returns its two lists with the client
\* closed, and stays so.
C25_ChecksFinishAndClientCloses ==
    /\ \A i \in 1..MaxLibs :
          (i \in DOMAIN checks) ~> (i \in DOMAIN checks /\ checks[i].tpc = "done")
    /\ <>[]ReturnedClosed

\* check_local_libs has returned after two checks, one of which made all
\* three attempts
C25_Witness ==
    /\ ReturnedClosed
    /\ Len(local_libs) = 2
    /\ \E i \in DOMAIN checks : checks[i].requests = MaxRetries

====
